---- MODULE Spec2Model ----
(***************************************************************************)
(* Model of mcp_playground/llm_bridge/openrouter_client.py:                *)
(* OpenRouterClient (fetch_models, fetch_top_models_by_provider,            *)
(* get_extra_headers) and the module function format_model_display.         *)
(*                                                                         *)
(* Text is a sequence of one-character strings, so that prefix tests,      *)
(* lower-casing, substring search, number parsing and number formatting    *)
(* are computed and not assumed.  A Python/JSON value is a record with a    *)
(* tag field t.                                                            *)
(***************************************************************************)
EXTENDS Integers, Sequences, FiniteSets, TLC

VARIABLES api_key, site_url, site_name, base_url,
          pc, op, provider, limit, request, response,
          getCount, fmCount, logCount, result,
          model, include_tool_indicator

config == <<api_key, site_url, site_name, base_url>>
vars == <<api_key, site_url, site_name, base_url,
          pc, op, provider, limit, request, response,
          getCount, fmCount, logCount, result,
          model, include_tool_indicator>>

(***************************************************************************)
(* Bounds of the model.                                                    *)
(***************************************************************************)
MaxModels == 3
MaxLimit == 3

(***************************************************************************)
(* Python / JSON values.                                                   *)
(***************************************************************************)
Absent == [t |-> "absent"]
PyNone == [t |-> "null"]
PyBool(b) == [t |-> "bool", v |-> b]
PyInt(n) == [t |-> "int", v |-> n]
PyStr(s) == [t |-> "str", s |-> s]
PyList(items) == [t |-> "list", items |-> items]

Returned(v) == [kind |-> "return", value |-> v]
Raised(e) == [kind |-> "raise", exc |-> e]
NoResult == [kind |-> "none"]

(***************************************************************************)
(* Text helpers.                                                           *)
(***************************************************************************)
StartsWith(s, prefix) ==
    /\ Len(prefix) <= Len(s)
    /\ SubSeq(s, 1, Len(prefix)) = prefix

EndsWith(s, suffix) ==
    /\ Len(suffix) <= Len(s)
    /\ SubSeq(s, Len(s) - Len(suffix) + 1, Len(s)) = suffix

Contains(s, pattern) ==
    \E i \in 0..(Len(s) - Len(pattern)) :
        SubSeq(s, i + 1, i + Len(pattern)) = pattern

(***************************************************************************)
(* Model records.  A record is a mapping over the keys the program reads;  *)
(* a key that is missing from the mapping has the value Absent.            *)
(***************************************************************************)
MkModel(id) ==
    [t |-> "dict", id |-> id, name |-> Absent, pricing |-> Absent,
     context_length |-> Absent, description |-> Absent,
     supports_tools |-> Absent, supports_function_calling |-> Absent]

Id_gpt4o == <<"o","a","i","/","g","p","t","-","4","o">>
Id_o1 == <<"o","a","i","/","o","1">>
Id_oaix == <<"o","a","i","x","/","m">>
P_oai == <<"o","a","i">>
P_oaix == <<"o","a","i","x">>
P_none == <<"z">>

CatalogIds == {Id_gpt4o, Id_o1, Id_oaix}
Providers == {P_oai, P_oaix, P_none, <<>>}
Limits == (-1)..MaxLimit

RECURSIVE SeqsUpTo(_, _)
SeqsUpTo(S, n) ==
    IF n = 0 THEN {<<>>}
    ELSE LET shorter == SeqsUpTo(S, n - 1)
         IN  shorter \cup {Append(q, x) : q \in shorter, x \in S}

Catalogs == SeqsUpTo({MkModel(PyStr(i)) : i \in CatalogIds}, MaxModels)

(***************************************************************************)
(* Upstream responses to GET <base_url>/models.  body is the outcome of    *)
(* response.json(): "malformed" when decoding raises, otherwise the        *)
(* decoded value; a decoded object is reduced to its `data` member.        *)
(***************************************************************************)
JsonObject(data) == [t |-> "dict", data |-> data]
Malformed == [t |-> "malformed"]

DataValues ==
    {Absent, PyNone, PyInt(5), PyStr(<<>>), PyStr(<<"a","b">>)}
        \cup {PyList(c) : c \in Catalogs}

Bodies ==
    {Malformed, PyNone, PyList(<<>>)} \cup {JsonObject(d) : d \in DataValues}

Statuses == {200, 300, 404, 500}

NetworkError == [k |-> "neterr"]
HttpResponse(status, body) == [k |-> "http", status |-> status, body |-> body]
NoResponse == [k |-> "none"]

Responses ==
    {NetworkError} \cup {HttpResponse(s, b) : s \in Statuses, b \in Bodies}

NoRequest == [url |-> <<>>, auth |-> <<>>, timeout |-> 0]

(***************************************************************************)
(* requests.Response.raise_for_status: raises HTTPError for 4xx and 5xx.   *)
(***************************************************************************)
RaiseForStatus(status) == status >= 400 /\ status < 600

(***************************************************************************)
(* fetch_models, from the response to the value handed to the awaiter.     *)
(* ok = FALSE is the `except Exception` branch (one print, return []).     *)
(***************************************************************************)
FetchModelsTry(resp) ==
    IF resp.k = "neterr" THEN [ok |-> FALSE]
    ELSE IF RaiseForStatus(resp.status) THEN [ok |-> FALSE]
    ELSE IF resp.body.t = "malformed" THEN [ok |-> FALSE]
    ELSE IF resp.body.t # "dict" THEN [ok |-> FALSE]
    ELSE IF resp.body.data.t = "absent" THEN [ok |-> TRUE, value |-> PyList(<<>>)]
    ELSE [ok |-> TRUE, value |-> resp.body.data]

(* variant: the except branch falls off the end of the function *)
FetchModelsValue_NoneOnError(resp) ==
    LET r == FetchModelsTry(resp)
    IN  IF r.ok THEN r.value ELSE PyNone

FetchModelsValue(resp) ==
    LET r == FetchModelsTry(resp)
    IN  IF r.ok THEN r.value ELSE PyList(<<>>)

FetchModelsLogs(resp) == IF FetchModelsTry(resp).ok THEN 0 ELSE 1

(***************************************************************************)
(* The comprehension of fetch_top_models_by_provider and the slice.        *)
(***************************************************************************)
Iterate(v) ==
    IF v.t = "list" THEN [ok |-> TRUE, items |-> v.items]
    ELSE IF v.t = "str"
         THEN [ok |-> TRUE, items |-> [i \in 1..Len(v.s) |-> PyStr(<<v.s[i]>>)]]
    ELSE [ok |-> FALSE, exc |-> "TypeError"]

ProviderPrefix(p) == p \o <<"/">>

RECURSIVE FilterByProvider(_, _)
FilterByProvider(items, prefix) ==
    IF items = <<>> THEN [ok |-> TRUE, items |-> <<>>]
    ELSE LET m == Head(items)
         IN  IF m.t # "dict" THEN [ok |-> FALSE, exc |-> "TypeError"]
             ELSE IF m.id.t = "absent" THEN [ok |-> FALSE, exc |-> "KeyError"]
             ELSE IF m.id.t # "str" THEN [ok |-> FALSE, exc |-> "AttributeError"]
             ELSE LET rest == FilterByProvider(Tail(items), prefix)
                  IN  IF ~rest.ok THEN rest
                      ELSE IF StartsWith(m.id.s, prefix)
                           THEN [ok |-> TRUE, items |-> <<m>> \o rest.items]
                           ELSE rest

SliceTo(s, n) ==
    IF n >= 0
        THEN SubSeq(s, 1, IF n < Len(s) THEN n ELSE Len(s))
        ELSE SubSeq(s, 1, IF Len(s) + n > 0 THEN Len(s) + n ELSE 0)

FetchTopResult(all_models, p, n) ==
    LET it == Iterate(all_models)
    IN  IF ~it.ok THEN Raised(it.exc)
        ELSE LET f == FilterByProvider(it.items, ProviderPrefix(p))
             IN  IF ~f.ok THEN Raised(f.exc)
                 ELSE Returned(PyList(SliceTo(f.items, n)))

(***************************************************************************)
(* get_extra_headers.                                                      *)
(***************************************************************************)
Truthy(v) ==
    CASE v.t = "str" -> v.s # <<>>
      [] v.t = "bool" -> v.v
      [] v.t = "int" -> v.v # 0
      [] v.t = "list" -> v.items # <<>>
      [] OTHER -> FALSE

Header(k, v) == [name |-> k, value |-> v]

(* variant: `is not None` tests in place of truthiness *)
ExtraHeaders_NotNone(url, name) ==
    [t |-> "headers",
     entries |-> (IF url.t # "null" THEN {Header("HTTP-Referer", url)} ELSE {})
                   \cup (IF name.t # "null" THEN {Header("X-Title", name)} ELSE {})]

ExtraHeaders(url, name) ==
    [t |-> "headers",
     entries |-> (IF Truthy(url) THEN {Header("HTTP-Referer", url)} ELSE {})
                   \cup (IF Truthy(name) THEN {Header("X-Title", name)} ELSE {})]

(***************************************************************************)
(* Numbers.  A float is sign, class and the decimal m * 10^(-e).           *)
(***************************************************************************)
PyFloat(neg, m, e) == [t |-> "float", cls |-> "fin", neg |-> neg, m |-> m, e |-> e]
PyInf == [t |-> "float", cls |-> "inf", neg |-> FALSE, m |-> 0, e |-> 0]
PyNan == [t |-> "float", cls |-> "nan", neg |-> FALSE, m |-> 0, e |-> 0]
EmptyDict == [t |-> "dict", prompt |-> Absent, completion |-> Absent]
PricingDict(p, c) == [t |-> "dict", prompt |-> p, completion |-> c]

RECURSIVE Pow10(_)
Pow10(n) == IF n <= 0 THEN 1 ELSE 10 * Pow10(n - 1)

Abs(n) == IF n < 0 THEN -n ELSE n

DigitChars == <<"0","1","2","3","4","5","6","7","8","9">>
IsDigit(c) == \E i \in 1..10 : DigitChars[i] = c
DigitVal(c) == (CHOOSE i \in 1..10 : DigitChars[i] = c) - 1
AllDigits(s) == \A i \in 1..Len(s) : IsDigit(s[i])

RECURSIVE DigitsVal(_)
DigitsVal(s) ==
    IF s = <<>> THEN 0
    ELSE 10 * DigitsVal(SubSeq(s, 1, Len(s) - 1)) + DigitVal(s[Len(s)])

RECURSIVE NatToStr(_)
NatToStr(n) ==
    IF n < 10 THEN <<DigitChars[n + 1]>>
    ELSE NatToStr(n \div 10) \o <<DigitChars[(n % 10) + 1]>>

IntToStr(n) == IF n < 0 THEN <<"-">> \o NatToStr(-n) ELSE NatToStr(n)

Pad3(n) == <<DigitChars[(n \div 100) + 1], DigitChars[((n \div 10) % 10) + 1],
             DigitChars[(n % 10) + 1]>>

RECURSIVE GroupNat(_)
GroupNat(n) ==
    IF n < 1000 THEN NatToStr(n)
    ELSE GroupNat(n \div 1000) \o <<",">> \o Pad3(n % 1000)

(* format(n, ",") of an int *)
FormatThousands(n) == IF n < 0 THEN <<"-">> \o GroupNat(-n) ELSE GroupNat(n)

(***************************************************************************)
(* str.lower() and str.strip().                                            *)
(***************************************************************************)
UpperChars == <<"A","B","C","D","E","F","G","H","I","J","K","L","M",
                "N","O","P","Q","R","S","T","U","V","W","X","Y","Z">>
LowerChars == <<"a","b","c","d","e","f","g","h","i","j","k","l","m",
                "n","o","p","q","r","s","t","u","v","w","x","y","z">>
LowerChar(c) ==
    IF \E i \in 1..26 : UpperChars[i] = c
        THEN LowerChars[CHOOSE i \in 1..26 : UpperChars[i] = c]
        ELSE c
Lower(s) == [i \in 1..Len(s) |-> LowerChar(s[i])]

RECURSIVE LStrip(_)
LStrip(s) == IF s # <<>> /\ Head(s) = " " THEN LStrip(Tail(s)) ELSE s
RECURSIVE RStrip(_)
RStrip(s) ==
    IF s # <<>> /\ s[Len(s)] = " " THEN RStrip(SubSeq(s, 1, Len(s) - 1)) ELSE s
Strip(s) == RStrip(LStrip(s))

IndexOf(s, chars) ==
    IF \E i \in 1..Len(s) : s[i] \in chars
        THEN CHOOSE i \in 1..Len(s) :
                 s[i] \in chars /\ \A j \in 1..(i - 1) : s[j] \notin chars
        ELSE 0

(***************************************************************************)
(* float(x).  Text: optional sign, then inf / infinity / nan or a decimal  *)
(* literal with optional fraction and exponent, surrounding blanks         *)
(* ignored ("_" digit separators are not covered).  The result is ok with  *)
(* a float, or the exception raised.                                       *)
(***************************************************************************)
FloatErr(e) == [ok |-> FALSE, exc |-> e]
FloatOk(f) == [ok |-> TRUE, val |-> f]

Normalise(neg, m, e) ==
    IF e >= 0 THEN PyFloat(neg, m, e) ELSE PyFloat(neg, m * Pow10(-e), 0)

ParseExponent(s) ==
    LET signed == s # <<>> /\ Head(s) \in {"+", "-"}
        digits == IF signed THEN Tail(s) ELSE s
    IN  IF digits = <<>> \/ ~AllDigits(digits) THEN [ok |-> FALSE]
        ELSE [ok |-> TRUE,
              val |-> IF signed /\ Head(s) = "-"
                         THEN -DigitsVal(digits) ELSE DigitsVal(digits)]

ParseDecimal(neg, s) ==
    LET ePos == IndexOf(s, {"e", "E"})
        mant == IF ePos = 0 THEN s ELSE SubSeq(s, 1, ePos - 1)
        expo == IF ePos = 0 THEN [ok |-> TRUE, val |-> 0]
                ELSE ParseExponent(SubSeq(s, ePos + 1, Len(s)))
        dot == IndexOf(mant, {"."})
        ip == IF dot = 0 THEN mant ELSE SubSeq(mant, 1, dot - 1)
        fp == IF dot = 0 THEN <<>> ELSE SubSeq(mant, dot + 1, Len(mant))
    IN  IF ~expo.ok \/ ~AllDigits(ip) \/ ~AllDigits(fp) \/ (ip = <<>> /\ fp = <<>>)
            THEN FloatErr("ValueError")
            ELSE FloatOk(Normalise(neg, DigitsVal(ip \o fp), Len(fp) - expo.val))

ParseFloat(text) ==
    LET s == Strip(text)
        signed == s # <<>> /\ Head(s) \in {"+", "-"}
        neg == signed /\ Head(s) = "-"
        body == IF signed THEN Tail(s) ELSE s
        low == Lower(body)
    IN  IF low \in {<<"i","n","f">>, <<"i","n","f","i","n","i","t","y">>}
            THEN FloatOk([PyInf EXCEPT !.neg = neg])
        ELSE IF low = <<"n","a","n">> THEN FloatOk(PyNan)
        ELSE ParseDecimal(neg, body)

ToFloat(v) ==
    CASE v.t = "str" -> ParseFloat(v.s)
      [] v.t = "int" -> FloatOk(PyFloat(v.v < 0, Abs(v.v), 0))
      [] v.t = "bool" -> FloatOk(PyFloat(FALSE, IF v.v THEN 1 ELSE 0, 0))
      [] v.t = "float" -> FloatOk(v)
      [] OTHER -> FloatErr("TypeError")

(* x * 1000000 *)
TimesMillion(f) ==
    IF f.cls # "fin" THEN f ELSE Normalise(f.neg, f.m, f.e - 6)

(* m / 10^k rounded to nearest; an exact decimal tie goes to even, where   *)
(* Python rounds the binary double, so the inputs used avoid ties          *)
RoundDiv(m, k) ==
    LET d == Pow10(k)
        q == m \div d
        r == m % d
    IN  IF k = 0 THEN m
        ELSE IF 2 * r > d \/ (2 * r = d /\ q % 2 = 1) THEN q + 1 ELSE q

(* format(x, ".2f") *)
Fixed2(f) ==
    IF f.cls # "fin"
        THEN (IF f.neg THEN <<"-">> ELSE <<>>) \o
             (IF f.cls = "inf" THEN <<"i","n","f">> ELSE <<"n","a","n">>)
        ELSE LET h == IF f.e <= 2 THEN f.m * Pow10(2 - f.e)
                      ELSE RoundDiv(f.m, f.e - 2)
             IN  (IF f.neg THEN <<"-">> ELSE <<>>) \o NatToStr(h \div 100) \o
                 <<".", DigitChars[((h \div 10) % 10) + 1], DigitChars[(h % 10) + 1]>>

(* str(x) as an f-string renders it *)
PyFormat(v) ==
    CASE v.t = "str" -> v.s
      [] v.t = "int" -> IntToStr(v.v)
      [] v.t = "bool" -> IF v.v THEN <<"T","r","u","e">> ELSE <<"F","a","l","s","e">>
      [] OTHER -> <<"N","o","n","e">>

(***************************************************************************)
(* format_model_display.                                                   *)
(***************************************************************************)
Get(v, default) == IF v.t = "absent" THEN default ELSE v

ToolMarker == <<"U+1F527", " ">>
Separator == <<" ", "|", " ">>
PricingUnavailable ==
    <<"P","r","i","c","i","n","g"," ","u","n","a","v","a","i","l","a","b","l","e">>
UnknownCtx == <<"U","n","k","n","o","w","n"," ","c","t","x">>
CtxSuffix == <<" ","c","t","x">>
Per1M == <<" ","p","e","r"," ","1","M">>
UnknownText == <<"U","n","k","n","o","w","n">>

ToolPatterns ==
    { <<"g","p","t","-","4","o">>,
      <<"g","p","t","-","4","-","t","u","r","b","o">>,
      <<"g","p","t","-","4">>,
      <<"g","p","t","-","3",".","5","-","t","u","r","b","o">>,
      <<"c","l","a","u","d","e","-","3">>,
      <<"c","l","a","u","d","e","-","3",".","5">>,
      <<"g","e","m","i","n","i","-","1",".","5">>,
      <<"g","e","m","i","n","i","-","p","r","o">>,
      <<"l","l","a","m","a","-","3",".","1">>,
      <<"l","l","a","m","a","-","3",".","2">>,
      <<"m","i","s","t","r","a","l","-","l","a","r","g","e">>,
      <<"m","i","x","t","r","a","l">> }

(* lines 104-115: the local supports_tools after the fallback; a failing   *)
(* model_id.lower() is swallowed by the `except Exception: pass`.          *)
(* variant: the id is matched without lower-casing *)
PatternMatch_CaseSensitive(model_id) ==
    /\ model_id.t = "str"
    /\ \E pattern \in ToolPatterns : Contains(model_id.s, pattern)

PatternMatch(model_id) ==
    /\ model_id.t = "str"
    /\ \E pattern \in ToolPatterns : Contains(Lower(model_id.s), pattern)

SupportsToolsLocal(m, model_id) ==
    LET supports_tools == Get(m.supports_tools, PyBool(FALSE))
        supports_function_calling == Get(m.supports_function_calling, PyBool(FALSE))
    IN  IF ~(Truthy(supports_tools) \/ Truthy(supports_function_calling))
           /\ PatternMatch(model_id)
            THEN PyBool(TRUE)
            ELSE supports_tools

(* lines 99-120 *)
ToolIndicator(m, model_id, inc) ==
    LET supports_tools == SupportsToolsLocal(m, model_id)
        supports_function_calling == Get(m.supports_function_calling, PyBool(FALSE))
    IN  IF inc /\ (Truthy(supports_tools) \/ Truthy(supports_function_calling))
            THEN ToolMarker ELSE <<>>

(* line 146 *)
SupportsToolsField(m, model_id, inc) ==
    IF inc THEN SupportsToolsLocal(m, model_id) ELSE PyNone

(* lines 123-128 *)
PricingStr(pricing) ==
    IF pricing.t # "dict" THEN [ok |-> FALSE, exc |-> "AttributeError"]
    ELSE LET p == ToFloat(Get(pricing.prompt, PyInt(0)))
             c == ToFloat(Get(pricing.completion, PyInt(0)))
         IN  IF ~p.ok \/ ~c.ok THEN [ok |-> TRUE, s |-> PricingUnavailable]
             ELSE [ok |-> TRUE,
                   s |-> <<"$">> \o Fixed2(TimesMillion(p.val)) \o <<"/", "$">>
                           \o Fixed2(TimesMillion(c.val)) \o Per1M]

(* lines 131-134 *)
IsIntOrFloat(v) == v.t \in {"int", "float", "bool"}

Positive(v) ==
    CASE v.t = "int" -> v.v > 0
      [] v.t = "bool" -> v.v
      [] v.t = "float" -> \/ (v.cls = "inf" /\ ~v.neg)
                          \/ (v.cls = "fin" /\ ~v.neg /\ v.m > 0)
      [] OTHER -> FALSE

(* int(x): truncation toward zero; int(inf) raises OverflowError *)
ToInt(v) ==
    CASE v.t = "int" -> [ok |-> TRUE, val |-> v.v]
      [] v.t = "bool" -> [ok |-> TRUE, val |-> IF v.v THEN 1 ELSE 0]
      [] v.t = "float" /\ v.cls = "fin" ->
            [ok |-> TRUE, val |-> (IF v.neg THEN -1 ELSE 1) * (v.m \div Pow10(v.e))]
      [] v.t = "float" /\ v.cls = "inf" -> [ok |-> FALSE, exc |-> "OverflowError"]
      [] OTHER -> [ok |-> FALSE, exc |-> "ValueError"]

ContextStr(context_length) ==
    IF IsIntOrFloat(context_length) /\ Positive(context_length)
        THEN LET n == ToInt(context_length)
             IN  IF n.ok THEN [ok |-> TRUE, s |-> FormatThousands(n.val) \o CtxSuffix]
                 ELSE [ok |-> FALSE, exc |-> n.exc]
        ELSE [ok |-> TRUE, s |-> UnknownCtx]

DisplayRecord(display, id, name, description, pricing, context_length, st) ==
    [t |-> "display", display |-> display, id |-> id, name |-> name,
     description |-> description, pricing |-> pricing,
     context_length |-> context_length, supports_tools |-> st]

(* lines 94-147, after model_id is bound *)
FormatWithId(m, model_id, inc) ==
    LET name == Get(m.name, Get(m.id, PyStr(UnknownText)))
        pricing == Get(m.pricing, EmptyDict)
        context_length == Get(m.context_length, PyStr(UnknownText))
        description == Get(m.description, PyStr(<<>>))
        pr == PricingStr(pricing)
        cx == ContextStr(context_length)
    IN  IF ~pr.ok THEN Raised(pr.exc)
        ELSE IF ~cx.ok THEN Raised(cx.exc)
        ELSE Returned(DisplayRecord(
                 ToolIndicator(m, model_id, inc) \o PyFormat(name)
                     \o Separator \o pr.s \o Separator \o cx.s,
                 model_id, name, description, pricing, context_length,
                 SupportsToolsField(m, model_id, inc)))

(* variant: model.get("id", "Unknown") in place of model["id"] *)
FormatModelDisplay_DefaultId(m, inc) ==
    FormatWithId(m, Get(m.id, PyStr(UnknownText)), inc)

FormatModelDisplay(m, inc) ==
    IF m.id.t = "absent" THEN Raised("KeyError")
    ELSE FormatWithId(m, m.id, inc)

(***************************************************************************)
(* Construction.                                                           *)
(***************************************************************************)
Txt_key == <<"k">>
Txt_site == <<"u">>
Txt_title == <<"n">>
BaseUrl == <<"https://openrouter.ai/api/v1">>
Timeout == 30

SiteUrls == {PyNone, PyStr(<<>>), PyStr(Txt_site)}
SiteNames == {PyNone, PyStr(<<>>), PyStr(Txt_title)}

NoModel == MkModel(Absent)

Init ==
    /\ api_key = Txt_key
    /\ site_url \in SiteUrls
    /\ site_name \in SiteNames
    /\ base_url = BaseUrl
    /\ pc = "idle"
    /\ op = "none"
    /\ provider = <<>>
    /\ limit = 0
    /\ request = NoRequest
    /\ response = NoResponse
    /\ getCount = 0
    /\ fmCount = 0
    /\ logCount = 0
    /\ result = NoResult
    /\ model = NoModel
    /\ include_tool_indicator = FALSE

(***************************************************************************)
(* Operations of OpenRouterClient.  A call that awaits the network is two  *)
(* steps: up to the GET, and from the response to the return.              *)
(***************************************************************************)
SendGet ==
    /\ request' = [url |-> base_url \o <<"/models">>,
                   auth |-> <<"Bearer ">> \o api_key,
                   timeout |-> Timeout]
    /\ getCount' = 1
    /\ fmCount' = 1
    /\ logCount' = 0
    /\ response' = NoResponse
    /\ result' = NoResult

FetchModelsCall ==
    /\ pc = "idle"
    /\ pc' = "awaiting"
    /\ op' = "fetch_models"
    /\ provider' = <<>>
    /\ limit' = 0
    /\ SendGet
    /\ UNCHANGED <<config, model, include_tool_indicator>>

(* variant: a failed attempt is followed by a second GET *)
FetchModelsComplete_Retry ==
    /\ pc = "awaiting"
    /\ op = "fetch_models"
    /\ \E resp \in Responses :
        /\ response' = resp
        /\ logCount' = logCount + FetchModelsLogs(resp)
        /\ IF ~FetchModelsTry(resp).ok /\ getCount < 2
              THEN /\ getCount' = getCount + 1
                   /\ pc' = "awaiting"
                   /\ result' = NoResult
              ELSE /\ getCount' = getCount
                   /\ pc' = "idle"
                   /\ result' = Returned(FetchModelsValue(resp))
    /\ UNCHANGED <<config, op, provider, limit, request, fmCount,
                   model, include_tool_indicator>>

FetchModelsComplete ==
    /\ pc = "awaiting"
    /\ op = "fetch_models"
    /\ \E resp \in Responses :
        /\ response' = resp
        /\ logCount' = logCount + FetchModelsLogs(resp)
        /\ result' = Returned(FetchModelsValue(resp))
    /\ pc' = "idle"
    /\ UNCHANGED <<config, op, provider, limit, request, getCount, fmCount,
                   model, include_tool_indicator>>

FetchTopCall ==
    /\ pc = "idle"
    /\ \E p \in Providers, n \in Limits :
        /\ provider' = p
        /\ limit' = n
    /\ pc' = "awaiting"
    /\ op' = "fetch_top"
    /\ SendGet
    /\ UNCHANGED <<config, model, include_tool_indicator>>

FetchTopComplete ==
    /\ pc = "awaiting"
    /\ op = "fetch_top"
    /\ \E resp \in Responses :
        /\ response' = resp
        /\ logCount' = logCount + FetchModelsLogs(resp)
        /\ result' = FetchTopResult(FetchModelsValue(resp), provider, limit)
    /\ pc' = "idle"
    /\ UNCHANGED <<config, op, provider, limit, request, getCount, fmCount,
                   model, include_tool_indicator>>

GetExtraHeaders ==
    /\ pc = "idle"
    /\ op' = "get_extra_headers"
    /\ result' = Returned(ExtraHeaders(site_url, site_name))
    /\ provider' = <<>>
    /\ limit' = 0
    /\ request' = NoRequest
    /\ response' = NoResponse
    /\ getCount' = 0
    /\ fmCount' = 0
    /\ logCount' = 0
    /\ UNCHANGED <<config, pc, model, include_tool_indicator>>

Next ==
    \/ FetchModelsCall
    \/ FetchModelsComplete
    \/ FetchTopCall
    \/ FetchTopComplete
    \/ GetExtraHeaders

Spec == Init /\ [][Next]_vars

(***************************************************************************)
(* Properties of OpenRouterClient, checked under Spec.                     *)
(***************************************************************************)
EmptyList == PyList(<<>>)
FetchModelsDone == pc = "idle" /\ op = "fetch_models"
FetchTopDone == pc = "idle" /\ op = "fetch_top"

BodyUnusable(resp) == resp.body.t = "malformed" \/ resp.body.t # "dict"

UpstreamFailed(resp) ==
    \/ resp.k = "neterr"
    \/ /\ resp.k = "http"
       /\ (resp.status \in 400..599 \/ BodyUnusable(resp))

UpstreamFailedNon2xx(resp) ==
    \/ resp.k = "neterr"
    \/ /\ resp.k = "http"
       /\ (resp.status \notin 200..299 \/ BodyUnusable(resp))

(* C1, as stated: after a network error, a non-2xx status, an undecodable  *)
(* body or a decoded body that is not an object, fetch_models returns the  *)
(* empty sequence.                                                         *)
C1_NonSuccessStatusYieldsEmpty ==
    (FetchModelsDone /\ UpstreamFailedNon2xx(response))
        => result = Returned(EmptyList)

(* C1, amended: after a network error, a 4xx or 5xx status, an undecodable *)
(* body or a decoded body that is not an object, fetch_models returns the  *)
(* empty sequence; it neither raises nor returns null.                     *)
C1_FailureYieldsEmpty ==
    (FetchModelsDone /\ UpstreamFailed(response))
        => result = Returned(EmptyList)

C1_Witness ==
    /\ FetchModelsDone
    /\ response.k = "http"
    /\ response.status = 404
    /\ response.body.t = "dict"
    /\ response.body.data.t = "list"
    /\ response.body.data.items # <<>>
    /\ result = Returned(EmptyList)
    /\ logCount = 1

(* C2: whatever the upstream response, fetch_models returns a sequence,    *)
(* never null, and an absent `data` member yields the empty sequence.      *)
C2_AlwaysReturnsSequence ==
    FetchModelsDone =>
        /\ result.kind = "return"
        /\ result.value.t = "list"
        /\ (/\ ~UpstreamFailed(response)
            /\ response.body.data.t = "absent") => result = Returned(EmptyList)

(* C3: for a limit n >= 0, fetch_top_models_by_provider(p, n) returns the  *)
(* first min(n, k) of the k fetched records whose id starts with p + "/",  *)
(* in upstream order; it is empty when nothing matches or the fetch        *)
(* failed.                                                                 *)
FetchedRecords(resp) ==
    IF ~UpstreamFailed(resp) /\ resp.body.data.t = "list"
        THEN resp.body.data.items ELSE <<>>

MatchesProvider(m, p) == StartsWith(m.id.s, p \o <<"/">>)

ExpectedTop(resp, p, n) ==
    LET matches == SelectSeq(FetchedRecords(resp), LAMBDA m : MatchesProvider(m, p))
        k == Len(matches)
    IN  SubSeq(matches, 1, IF n < k THEN n ELSE k)

C3_TopModelsByProvider ==
    (FetchTopDone /\ limit >= 0)
        => result = Returned(PyList(ExpectedTop(response, provider, limit)))

(* C9: get_extra_headers returns HTTP-Referer -> site_url exactly when     *)
(* site_url is set and non-empty, X-Title -> site_name exactly when        *)
(* site_name is set and non-empty, and nothing else; the call changes no   *)
(* configuration field and issues no request.                              *)
SetAndNonEmpty(v) == v.t = "str" /\ Len(v.s) > 0

C9_ExtraHeaders ==
    [][GetExtraHeaders =>
        /\ result'.kind = "return"
        /\ \A h \in result'.value.entries : h.name \in {"HTTP-Referer", "X-Title"}
        /\ (Header("HTTP-Referer", site_url) \in result'.value.entries)
              <=> SetAndNonEmpty(site_url)
        /\ (\E h \in result'.value.entries : h.name = "HTTP-Referer")
              <=> SetAndNonEmpty(site_url)
        /\ (Header("X-Title", site_name) \in result'.value.entries)
              <=> SetAndNonEmpty(site_name)
        /\ (\E h \in result'.value.entries : h.name = "X-Title")
              <=> SetAndNonEmpty(site_name)
        /\ config' = config
        /\ request' = NoRequest
        /\ getCount' = 0]_vars

C9_Witness ==
    /\ op = "get_extra_headers"
    /\ site_url = PyStr(<<>>)
    /\ site_name = PyStr(Txt_title)
    /\ result = Returned([t |-> "headers",
                          entries |-> {Header("X-Title", PyStr(Txt_title))}])

(* C10: a call issues exactly one GET and enters fetch_models exactly      *)
(* once: from the await the only step is the return, whatever the          *)
(* response, and no step changes the configuration.                        *)
C10_NoRetry ==
    [][/\ config' = config
       /\ getCount' <= 1
       /\ fmCount' <= 1
       /\ (pc = "idle" /\ pc' = "awaiting") => (getCount' = 1 /\ fmCount' = 1)
       /\ (pc = "awaiting") =>
             /\ pc' = "idle"
             /\ result'.kind # "none"
             /\ getCount' = 1
             /\ fmCount' = 1
             /\ request' = request]_vars

C10_Witness ==
    /\ FetchTopDone
    /\ response = NetworkError
    /\ getCount = 1
    /\ fmCount = 1
    /\ logCount = 1
    /\ result = Returned(EmptyList)

(***************************************************************************)
(* format_model_display applied to one record and flag.                    *)
(***************************************************************************)
Id_GPT4 == <<"x","/","G","P","T","-","4">>
Id_claude == <<"a","/","c","l","a","u","d","e","-","3",".","5","-","s">>
Id_gpt3 == <<"x","/","g","p","t","-","3">>
Txt_name == <<"N","m">>
Txt_price1 == <<"0",".","0","0","0","0","0","1">>
Txt_price2 == <<" ","2",".","5","e","-","6">>
Txt_word == <<"a","b","c">>
Txt_ctx == <<"8","0","0","0">>

FormatIds == {Absent, PyStr(Id_GPT4), PyStr(Id_claude), PyStr(Id_gpt3)}
FormatNames == {Absent, PyStr(Txt_name)}
PriceValues ==
    {Absent, PyStr(Txt_price1), PyStr(Txt_price2), PyFloat(FALSE, 15, 7),
     PyStr(Txt_word), PyNone}
FormatPricings ==
    {Absent, PyNone} \cup {PricingDict(p, c) : p \in PriceValues, c \in PriceValues}
FormatContexts ==
    {Absent, PyInt(128000), PyInt(1234567), PyInt(0), PyInt(-5), PyStr(Txt_ctx),
     PyNone, PyBool(TRUE), PyBool(FALSE), PyFloat(FALSE, 40965, 1), PyInf, PyNan,
     EmptyDict}
FormatFlags == {Absent, PyBool(TRUE), PyBool(FALSE)}

FormatModels ==
    {[t |-> "dict", id |-> i, name |-> n, pricing |-> p, context_length |-> c,
      description |-> Absent, supports_tools |-> st,
      supports_function_calling |-> sfc] :
        i \in FormatIds, n \in FormatNames, p \in FormatPricings,
        c \in FormatContexts, st \in FormatFlags, sfc \in FormatFlags}

InitFormat ==
    /\ api_key = Txt_key
    /\ site_url = PyNone
    /\ site_name = PyNone
    /\ base_url = BaseUrl
    /\ pc = "idle"
    /\ op = "none"
    /\ provider = <<>>
    /\ limit = 0
    /\ request = NoRequest
    /\ response = NoResponse
    /\ getCount = 0
    /\ fmCount = 0
    /\ logCount = 0
    /\ result = NoResult
    /\ model \in FormatModels
    /\ include_tool_indicator \in BOOLEAN

FormatCall ==
    /\ pc = "idle"
    /\ op = "none"
    /\ op' = "format_model_display"
    /\ result' = FormatModelDisplay(model, include_tool_indicator)
    /\ UNCHANGED <<config, pc, provider, limit, request, response,
                   getCount, fmCount, logCount, model, include_tool_indicator>>

NextFormat == FormatCall

SpecFormat == InitFormat /\ [][NextFormat]_vars

(***************************************************************************)
(* Properties of format_model_display, checked under SpecFormat.           *)
(***************************************************************************)
FormatDone == op = "format_model_display"
FormatReturned == FormatDone /\ result.kind = "return"

RECURSIVE SplitOn(_, _)
SplitOn(s, sep) ==
    LET hits == {i \in 1..(Len(s) - Len(sep) + 1) : SubSeq(s, i, i + Len(sep) - 1) = sep}
    IN  IF hits = {} THEN <<s>>
        ELSE LET i == CHOOSE h \in hits : \A g \in hits : h <= g
             IN  <<SubSeq(s, 1, i - 1)>> \o SplitOn(SubSeq(s, i + Len(sep), Len(s)), sep)

Segments(display) == SplitOn(display, Separator)
PricingSegment(display) == Segments(display)[Len(Segments(display)) - 1]
ContextSegment(display) == Segments(display)[Len(Segments(display))]

PriceUsable(v) == v.t # "absent" /\ ToFloat(v).ok

(* C4: the pricing segment of display is "Pricing unavailable" exactly     *)
(* when pricing.prompt or pricing.completion is absent or not convertible  *)
(* to a number, a missing or empty pricing mapping included; otherwise it  *)
(* is "$<prompt>/$<completion> per 1M".                                    *)
C4_PricingAllOrNothing ==
    FormatReturned =>
        LET pricing == Get(model.pricing, EmptyDict)
            segment == PricingSegment(result.value.display)
            usable == PriceUsable(pricing.prompt) /\ PriceUsable(pricing.completion)
        IN  /\ (segment = PricingUnavailable) <=> ~usable
            /\ usable => (StartsWith(segment, <<"$">>) /\ EndsWith(segment, Per1M))

FlagTrue(v) == v.t = "bool" /\ v.v
IdOnAllowList(id) ==
    /\ id.t = "str"
    /\ \E fragment \in ToolPatterns : Contains(Lower(id.s), fragment)

EffectiveCapability(m) ==
    \/ FlagTrue(m.supports_tools)
    \/ FlagTrue(m.supports_function_calling)
    \/ IdOnAllowList(m.id)

(* C5: the supports_tools field of the returned record is the effective    *)
(* capability (either explicit flag true, or the id on the allow-list)     *)
(* when include_tool_indicator is true, and null when it is false.         *)
C5_SupportsToolsField ==
    FormatReturned =>
        result.value.supports_tools =
            IF include_tool_indicator
                THEN PyBool(EffectiveCapability(model)) ELSE PyNone

(* C6: display begins with the tool marker and one space exactly when      *)
(* include_tool_indicator is true and the effective capability is true;    *)
(* otherwise nothing is prepended and display begins with the name.        *)
C6_ToolMarkerPrefix ==
    FormatReturned =>
        LET display == result.value.display
            nameText == PyFormat(Get(model.name, model.id))
            marked == include_tool_indicator /\ EffectiveCapability(model)
        IN  /\ StartsWith(display, ToolMarker) <=> marked
            /\ marked => StartsWith(display, ToolMarker \o nameText \o Separator)
            /\ ~marked => StartsWith(display, nameText \o Separator)

C6_Witness ==
    /\ FormatReturned
    /\ include_tool_indicator
    /\ model.id = PyStr(Id_GPT4)
    /\ model.supports_tools.t = "absent"
    /\ model.supports_function_calling.t = "absent"
    /\ StartsWith(result.value.display, ToolMarker)

(* C7: on a record without the id key format_model_display raises          *)
(* KeyError, for either flag value and with or without a name; nothing is  *)
(* returned.                                                               *)
C7_MissingIdRaises ==
    (FormatDone /\ model.id.t = "absent") => result = Raised("KeyError")

C7_Witness ==
    /\ FormatDone
    /\ model.id.t = "absent"
    /\ model.name.t = "str"
    /\ include_tool_indicator
    /\ result = Raised("KeyError")

PositiveNumber(v) ==
    \/ v.t = "int" /\ v.v > 0
    \/ v.t = "float" /\ v.cls = "inf" /\ ~v.neg
    \/ v.t = "float" /\ v.cls = "fin" /\ ~v.neg /\ v.m > 0

GroupedDigits(s) ==
    /\ s # <<>>
    /\ \A i \in 1..Len(s) : IsDigit(s[i]) \/ s[i] = ","

(* C8: the context segment of display is "<grouped integer> ctx" exactly   *)
(* when context_length is a number greater than zero, and "Unknown ctx"    *)
(* for every other value (absent, string, null, boolean, mapping, zero,    *)
(* negative); none of these raises.                                        *)
C8_ContextSegment ==
    (FormatDone /\ model.id.t # "absent" /\ Get(model.pricing, EmptyDict).t = "dict")
        => /\ result.kind = "return"
           /\ LET segment == ContextSegment(result.value.display)
              IN  IF PositiveNumber(model.context_length)
                      THEN /\ EndsWith(segment, CtxSuffix)
                           /\ GroupedDigits(SubSeq(segment, 1, Len(segment) - Len(CtxSuffix)))
                      ELSE segment = UnknownCtx

====
